---- MODULE Spec2Model ----
(***************************************************************************)
(* A model of PCBOT's command dispatch core: the argument binder of        *)
(* bot.py (parse_annotation, parse_command_args), the sub-command walk     *)
(* (get_sub_command), the dispatcher (parse_command, on_message) and the   *)
(* command registration decorator of plugins/__init__.py.                  *)
(*                                                                         *)
(* Values bound to handler parameters are strings: a token is itself, a    *)
(* message tail is its tokens joined by single spaces, the Python int 7 is *)
(* "int:7", a declared default is "<default>".                             *)
(***************************************************************************)
EXTENDS Integers, Sequences, FiniteSets, TLC

VARIABLES
    \* ---- the binder (parse_command_args as a function of its inputs) ----
    signature,      \* inspect.signature(command.function).parameters, in order
    content,        \* utils.split(message.content): the tokens of the message
    start_index,    \* tokens consumed by the sub-command walk
    result,         \* what parse_command_args returned (or that it raised)
    bphase,         \* "input" before the call, "bound" after it
    \* ---- registration (the module attribute __commands of one plugin) ----
    commands,       \* the plugin's top-level commands, each with its sub_commands
    last_reg,       \* the last use of the decorator and whether it raised
    walk,           \* the last sub-command walk over these commands
    \* ---- dispatch (on_message over the loaded plugins) ----
    plugins,        \* plugins.plugins: the loaded plugins, in insertion order
    msg,            \* the message on_message was called with
    pc,             \* where on_message is: "idle", "reply" (suspended in
                    \* parse_command at the await of the reply), "done", "raised"
    it,             \* the place of the current plugin in the iteration
    it_size,        \* the size of plugins.plugins when the iteration began
    pending,        \* the reply awaited by parse_command
    scheduled,      \* tasks given to client.loop.create_task for this message
    sent,           \* messages sent to the channel for this message
    bindlog,        \* per matched command of this message: what parse_command found
    failures,       \* whether a scheduled task has raised: "no", "now" (a task of
                    \* this message), "before" (a task of an earlier message)
    loop_running,   \* whether the event loop of the client still runs
    \* ---- plugin management (load, unload, reload, save, autosave) ----
    entries,        \* plugins.plugins as the dict keeps it: the keys in insertion
                    \* order, "" where a key was deleted
    mods,           \* per plugin name: whether its module is imported
                    \* (sys.modules) and its __commands attribute
    units,          \* per plugin name: the state of its source file in plugins/
    hooks,          \* per plugin name: what its save hook does when called
    coros,          \* the running tasks of the load/unload/reload commands
    auto,           \* the autosave task
    last_op,        \* what the last step did
    \* ---- the lambda commands of pcbot/builtin.py ----
    lambdas,        \* lambdas.data: the triggers that have a script
    blacklist,      \* lambda_config.data["blacklist"], a list
    asked,          \* the triggers "lambda disable" was run for while they
                    \* existed and were enabled, and not enabled or removed since
    lam_last,       \* the last lambda command or message and what came of it
    \* ---- setowner of pcbot/builtin.py ----
    owner,          \* utils.owner_cfg.data: "" while no owner is stored
    setowners,      \* the running setowner coroutines
    ends,           \* how the timed waits that are over ended
    \* ---- plugins/wordsearch.py ----
    wordsearch,     \* the list of the channel ids with a wordsearch
    sessions,       \* the running start_wordsearch coroutines
    ws_last         \* the last step of a wordsearch and what came of it

bindvars == <<signature, content, start_index, result, bphase>>
regvars == <<commands, last_reg, walk>>
dispvars == <<plugins, msg, pc, it, it_size, pending, scheduled, sent, bindlog,
              failures, loop_running>>

manvars == <<entries, mods, units, hooks, coros, auto, last_op>>

lamvars == <<lambdas, blacklist, asked, lam_last>>

ownvars == <<owner, setowners, ends>>

wsvars == <<wordsearch, sessions, ws_last>>

appvars == <<lamvars, ownvars, wsvars>>

vars == <<signature, content, start_index, result, bphase, commands, last_reg, walk,
          plugins, msg, pc, it, it_size, pending, scheduled, sent, bindlog,
          failures, loop_running,
          entries, mods, units, hooks, coros, auto, last_op,
          lambdas, blacklist, asked, lam_last,
          owner, setowners, ends,
          wordsearch, sessions, ws_last>>

-----------------------------------------------------------------------------
(* Bounds *)

\* most argument tokens after the command / sub-command name
MaxArgs == 3
\* most declared parameters after client and message
MaxParams == 3
\* most uses of the decorator in one plugin
MaxRegistrations == 4
\* most tokens of a dispatched message, the command name included
MaxTokens == 4
\* most tokens after the command name in a walk over registered commands
MaxWalkTokens == 3
\* most entries, deleted ones included, the dict of plugins holds before an
\* insertion rebuilds it
MaxEntries == 4
\* most management commands suspended in a save hook at one time
MaxTasks == 2

-----------------------------------------------------------------------------
(* Tokens and values *)

ArgTokens == {"Math", "7"}

Digits == {"7"}

\* str.lower
Lower(s) == IF s = "Math" THEN "math" ELSE s

\* int(s): the string form of the integer, or no value (ValueError)
IntOf(s) == "int:" \o s

DefaultVal == "<default>"

RECURSIVE Join(_)
Join(toks) ==
    IF toks = <<>> THEN ""
    ELSE IF Len(toks) = 1 THEN toks[1]
    ELSE toks[1] \o " " \o Join(Tail(toks))

RECURSIVE LowerAll(_)
LowerAll(toks) ==
    IF toks = <<>> THEN <<>> ELSE <<Lower(toks[1])>> \o LowerAll(Tail(toks))

\* utils.split(text, maxsplit=index)[-1] on a message of tokens toks: the
\* rest of the message from its index-th token (0-based) on
SplitTail(toks, index) == SubSeq(toks, index + 1, Len(toks))

\* utils.get_formatted_code(code): the code inside the fence
FormattedCode(code) == "code(" \o code \o ")"

-----------------------------------------------------------------------------
(* Signatures *)

ClientParam == [kind |-> "POS", anno |-> "Client", hasDefault |-> FALSE]
MessageParam == [kind |-> "POS", anno |-> "Message", hasDefault |-> FALSE]

\* Annotations of an argument parameter: none at all (inspect.Parameter.empty),
\* the functions str.lower, int and abs, and the Annotate members.
CoercionAnnos == {"lower", "int", "abs"}
ContentAnnos == {"Content", "LowerContent", "Code"}
BindAnnos == {"empty", "lower", "int", "abs", "Content"}

ArgParams ==
    [kind : {"POS"}, anno : BindAnnos, hasDefault : BOOLEAN]
    \cup [kind : {"KW"}, anno : BindAnnos \ {"empty"}, hasDefault : BOOLEAN]
    \cup [kind : {"VAR"}, anno : {"lower", "int"}, hasDefault : {FALSE}]

\* What Python lets a function declare: positional parameters (those with a
\* default last), then at most one *args, then keyword-only parameters.
KindRank(k) == CASE k = "POS" -> 1 [] k = "VAR" -> 2 [] k = "KW" -> 3

WellFormed(ps) ==
    /\ \A i \in 1..Len(ps) - 1 :
          /\ KindRank(ps[i].kind) <= KindRank(ps[i + 1].kind)
          /\ ~(ps[i].kind = "VAR" /\ ps[i + 1].kind = "VAR")
          /\ (ps[i].kind = "POS" /\ ps[i + 1].kind = "POS" /\ ps[i].hasDefault)
                => ps[i + 1].hasDefault

ParamLists ==
    UNION {{ps \in [1..n -> ArgParams] : WellFormed(ps)} : n \in 0..MaxParams}

TokenLists == UNION {[1..n -> ArgTokens] : n \in 0..MaxArgs}

-----------------------------------------------------------------------------
(* parse_annotation *)

Val(v) == [t |-> "val", v |-> v]
NoValue == [t |-> "none", v |-> ""]
RaisedTypeError == [t |-> "typeerr", v |-> ""]
RaisedOther == [t |-> "exc", v |-> ""]

\* anno(arg) for a callable annotation: str.lower and str return a string;
\* int raises ValueError unless the token is a number; abs takes no str and
\* inspect.Parameter.empty (no annotation) is a class taking no argument, so
\* both raise TypeError.
CallAnnotation(anno, arg) ==
    CASE anno = "lower" -> Val(Lower(arg))
      [] anno = "str" -> Val(arg)
      [] anno = "int" -> IF arg \in Digits THEN Val(IntOf(arg)) ELSE RaisedOther
      [] OTHER -> RaisedTypeError

\* a parse_annotation whose except clause takes TypeError as well
TryAnnotationCatchAll(out) ==
    IF out.t \in {"typeerr", "exc"} THEN NoValue ELSE out

\* try: return anno(arg)
\* except TypeError: raise TypeError(...)
\* except: return None
TryAnnotation(out) ==
    CASE out.t = "typeerr" -> RaisedTypeError
      [] out.t = "exc" -> NoValue
      [] OTHER -> out

\* index is the token's position in utils.split(message.content)
ParseAnnotation(param, arg, index, toks) ==
    CASE param.anno = "Content" -> Val(Join(SplitTail(toks, index)))
      [] param.anno = "LowerContent" -> Val(Join(LowerAll(SplitTail(toks, index))))
      [] param.anno = "Code" -> Val(FormattedCode(Join(SplitTail(toks, index))))
      [] OTHER -> TryAnnotation(CallAnnotation(param.anno, arg))

-----------------------------------------------------------------------------
(* parse_command_args *)

\* num_kwargs: the keyword-only parameters of the signature
NumKwargs(sig) == Cardinality({i \in 1..Len(sig) : sig[i].kind = "KW"})

\* if index <= len(cmd_args): there is an argument passed
\* a binder that asks for one token more than the parameter needs
HasArgumentStrict(index, cmd_args) == index < Len(cmd_args)

HasArgument(index, cmd_args) == index <= Len(cmd_args)

\* cmd_args[index - 1:-num_kwargs] as Python slices it: a stop of -0 is 0,
\* a negative stop counts from the end, and a stop before the start is empty.
\* Positions are returned 1-based.
VarSliceStop(cmd_args, num_kwargs) ==
    IF num_kwargs = 0 THEN 0
    ELSE IF Len(cmd_args) - num_kwargs < 0 THEN 0
    ELSE Len(cmd_args) - num_kwargs

VarSlice(cmd_args, index, num_kwargs) ==
    SubSeq(cmd_args, index, VarSliceStop(cmd_args, num_kwargs))

\* The for loop over cmd_args[index - 1:-num_kwargs] of the *args branch.
\* st carries args, num_pos_args and status.
RECURSIVE VarLoop(_, _, _, _, _)
VarLoop(param, slice, index, toks, st) ==
    IF slice = <<>> \/ st.status # "run" THEN st
    ELSE LET tmp_arg == ParseAnnotation(param, slice[1], index, toks)
             st2 == CASE tmp_arg.t = "typeerr" -> [st EXCEPT !.status = "raised"]
                      [] tmp_arg.t = "val" ->
                           [st EXCEPT !.args = Append(@, tmp_arg.v),
                                      !.num_pos_args = @ + 1]
                      [] OTHER -> st
         IN  VarLoop(param, Tail(slice), index, toks, st2)

\* complete = (num_given == num_args)
IsComplete(num_given, num_args) == num_given = num_args

\* a binder that ignores every declared default
HasNoDefault(param) == FALSE

\* param.default is not param.empty
HasDefault(param) == param.hasDefault

\* One turn of "for arg, param in signature.parameters.items()": k is the
\* parameter's place in the signature (1-based), st the locals of the function.
\* st.log records, for every parameter handled outside the *args branch, the
\* place of the token it was given (index, as a 1-based place in cmd_args) and
\* what parse_annotation made of it ("absent": no token was left).
BindParam(sig, cmd_args, start, toks, k, st) ==
    LET param == sig[k]
        index == st.index + 1
        s1 == [st EXCEPT !.index = index]
        Logged(s, out) == [s EXCEPT !.log = Append(@, [k |-> k, index |-> index, out |-> out])]
    IN
    IF index = 0 THEN
        IF param.anno # "Client" THEN [s1 EXCEPT !.status = "raised"] ELSE s1
    ELSE IF index = 1 THEN
        IF param.anno # "Message" THEN [s1 EXCEPT !.status = "raised"] ELSE s1
    ELSE IF ~HasArgument(index, cmd_args) THEN
        IF HasDefault(param) THEN
            CASE param.kind = "POS" ->
                   Logged([s1 EXCEPT !.args = Append(@, DefaultVal)], "absent")
              [] param.kind = "KW" ->
                   Logged([s1 EXCEPT !.kwargs = (k :> DefaultVal) @@ @], "absent")
              [] OTHER -> s1
        ELSE [s1 EXCEPT !.index = index - 1, !.status = "break"]
    ELSE
        LET cmd_arg == cmd_args[index]
            tmp_arg == ParseAnnotation(param, cmd_arg, (index - 1) + start, toks)
            s3 == Logged(s1, tmp_arg.t)
        IN
        CASE param.kind = "POS" ->
               IF tmp_arg.t = "typeerr" THEN [s3 EXCEPT !.status = "raised"]
               ELSE IF tmp_arg.t = "val" THEN [s3 EXCEPT !.args = Append(@, tmp_arg.v)]
               ELSE IF HasDefault(param) THEN [s3 EXCEPT !.args = Append(@, DefaultVal)]
               ELSE [s3 EXCEPT !.status = "quit"]
          [] param.kind = "KW" ->
               IF tmp_arg.t = "typeerr" THEN [s3 EXCEPT !.status = "raised"]
               ELSE IF tmp_arg.t = "val" THEN [s3 EXCEPT !.kwargs = (k :> tmp_arg.v) @@ @]
               ELSE IF HasDefault(param) THEN [s3 EXCEPT !.kwargs = (k :> DefaultVal) @@ @]
               ELSE [s3 EXCEPT !.status = "quit"]
          [] OTHER ->
               LET s2 == VarLoop(param, VarSlice(cmd_args, index, NumKwargs(sig)),
                                 index + start, toks, [s1 EXCEPT !.has_pos = TRUE])
               IN  [s2 EXCEPT !.index =
                        IF s2.num_pos_args # 0 THEN @ + (s2.num_pos_args - 1) ELSE @]

RECURSIVE BindLoop(_, _, _, _, _, _)
BindLoop(sig, cmd_args, start, toks, k, st) ==
    IF k > Len(sig) \/ st.status # "run" THEN st
    ELSE BindLoop(sig, cmd_args, start, toks, k + 1,
                  BindParam(sig, cmd_args, start, toks, k, st))

\* cmd_args[0] is the name of the command or of the last sub-command.
\* Returns args, kwargs and complete; raised tells that the call raised instead.
ParseCommandArgs(sig, cmd_args, start, toks) ==
    LET st0 == [index |-> -1, args |-> <<>>, kwargs |-> <<>>, has_pos |-> FALSE,
                num_pos_args |-> 0, status |-> "run", log |-> <<>>]
        st == BindLoop(sig, cmd_args, start, toks, 1, st0)
        num_args == (Len(sig) - 2)
                    - (IF st.has_pos /\ st.num_pos_args = 0 THEN 1 ELSE 0)
        num_given == st.index - 1
    IN
    CASE st.status = "raised" ->
           [args |-> st.args, kwargs |-> st.kwargs, complete |-> FALSE, raised |-> TRUE,
            log |-> st.log]
      [] st.status = "quit" ->
           [args |-> st.args, kwargs |-> st.kwargs, complete |-> FALSE, raised |-> FALSE,
            log |-> st.log]
      [] OTHER ->
           [args |-> st.args, kwargs |-> st.kwargs,
            complete |-> IsComplete(num_given, num_args), raised |-> FALSE,
            log |-> st.log]

-----------------------------------------------------------------------------
(* plugins.command: the registration decorator *)

\* the one element of a one-element set
Only(S) == CHOOSE x \in S : TRUE

\* Command(name=..., function=func, sub_commands=[], error=...); params is
\* what inspect.signature(function) shows after client and message
NewCommand(decl) ==
    [name |-> decl.name, function |-> decl.function, params |-> decl.params,
     error |-> decl.error, sub_commands |-> <<>>]

NoCommand ==
    [name |-> "", function |-> "", params |-> <<>>, error |-> "",
     sub_commands |-> <<>>]

\* parent.sub_commands.append(cmd), the parent being the command at path: a
\* place in cmds, then a place in that command's sub_commands, and so on
RECURSIVE AppendAt(_, _, _)
AppendAt(cmds, path, cmd) ==
    IF Len(path) = 1
    THEN [cmds EXCEPT ![path[1]].sub_commands = Append(@, cmd)]
    ELSE [cmds EXCEPT ![path[1]].sub_commands = AppendAt(@, Tail(path), cmd)]

\* any(cmd.name == name for cmd in commands), commands being the plugin's
\* __commands: its top-level commands
NameTaken(cmds, decl) == \E i \in 1..Len(cmds) : cmds[i].name = decl.name

\* decorator(func): raises when the name is taken, else adds the command to
\* its parent's sub_commands or to the plugin's __commands
Register(cmds, decl) ==
    IF NameTaken(cmds, decl)
    THEN [raised |-> TRUE, commands |-> cmds]
    ELSE [raised |-> FALSE,
          commands |-> IF decl.parent = <<>> THEN Append(cmds, NewCommand(decl))
                       ELSE AppendAt(cmds, decl.parent, NewCommand(decl))]

\* importing a module runs its decorators in source order
RECURSIVE RegisterAll(_, _)
RegisterAll(cmds, decls) ==
    IF decls = <<>> THEN cmds
    ELSE \* each decorator runs once, on the commands its predecessors left
         Only({RegisterAll(c, Tail(decls)) : c \in {Register(cmds, decls[1]).commands}})

\* the paths of all commands of a tree
RECURSIVE Paths(_)
Paths(cmds) ==
    UNION {{<<i>>} \cup {<<i>> \o q : q \in Paths(cmds[i].sub_commands)} :
           i \in 1..Len(cmds)}

RECURSIVE CommandAt(_, _)
CommandAt(cmds, path) ==
    IF Len(path) = 1 THEN cmds[path[1]]
    ELSE CommandAt(cmds[path[1]].sub_commands, Tail(path))

\* the siblings a registration under parent joins
Siblings(cmds, parent) ==
    IF parent = <<>> THEN cmds ELSE CommandAt(cmds, parent).sub_commands

-----------------------------------------------------------------------------
(* The plugins of the repository *)

Pos(anno, hasDefault) == [kind |-> "POS", anno |-> anno, hasDefault |-> hasDefault]

Decl(name, function, params, error, parent) ==
    [name |-> name, function |-> function, params |-> params, error |-> error,
     parent |-> parent]

LoadError == "You need to specify the name of the plugin to load."
UnloadError == "You need to specify the name of the plugin to unload."

\* pcbot/builtin.py, its decorated functions in source order; plugin_ becomes
\* the 7th and lambda_ the 8th top-level command
BuiltinDecls ==
    << Decl("help", "help_", <<Pos("lower", TRUE)>>, "", <<>>),
       Decl("setowner", "setowner", <<>>, "", <<>>),
       Decl("stop", "stop", <<>>, "", <<>>),
       Decl("game", "game", <<Pos("Content", TRUE)>>, "", <<>>),
       Decl("do", "do", <<Pos("Code", FALSE)>>, "", <<>>),
       Decl("eval", "eval_", <<Pos("Code", FALSE)>>, "", <<>>),
       Decl("plugin", "plugin_", <<>>, "", <<>>),
       Decl("reload", "reload", <<Pos("lower", TRUE)>>, "", <<7>>),
       Decl("load", "load", <<Pos("lower", FALSE)>>, LoadError, <<7>>),
       Decl("unload", "unload", <<Pos("lower", FALSE)>>, UnloadError, <<7>>),
       Decl("lambda", "lambda_", <<>>, "", <<>>),
       Decl("add", "add", <<Pos("lower", FALSE), Pos("Code", FALSE)>>, "", <<8>>),
       Decl("remove", "remove", <<Pos("lower", FALSE)>>, "", <<8>>),
       Decl("enable", "enable", <<Pos("lower", FALSE)>>, "", <<8>>),
       Decl("disable", "disable", <<Pos("lower", FALSE)>>, "", <<8>>),
       Decl("import", "import_", <<Pos("str", FALSE), Pos("str", TRUE)>>, "", <<8>>),
       Decl("source", "source", <<Pos("lower", FALSE)>>, "", <<8>>),
       Decl("ping", "ping", <<>>, "", <<>>),
       Decl("uptime", "uptime", <<>>, "", <<>>) >>

\* plugins/wordsearch.py
WordsearchDecls ==
    << Decl("wordsearch", "wordsearch_", <<>>, "", <<>>),
       Decl("auto", "auto", <<Pos("int", TRUE)>>, "", <<1>>) >>

PluginNames == {"builtin", "wordsearch"}

\* getattr(plugin, "__commands") after the module was imported
BuiltinCommands == RegisterAll(<<>>, BuiltinDecls)
WordsearchCommands == RegisterAll(<<>>, WordsearchDecls)

UnitCommands(name) ==
    IF name = "builtin" THEN BuiltinCommands ELSE WordsearchCommands

\* the module-level names of a plugin that the dispatcher asks for
ModuleAttrs(name) ==
    IF name = "builtin"
    THEN {"help_", "setowner", "stop", "game", "do", "eval_", "plugin_", "reload",
          "load", "unload", "lambda_", "add", "remove", "enable", "disable",
          "import_module", "import_", "source", "ping", "uptime", "on_ready",
          "on_message"}
    ELSE {"valid_word", "valid_guess", "format_hint", "auto_word",
          "stop_wordsearch", "start_wordsearch", "wordsearch_", "auto"}

\* load_plugin(name) imports plugins.<name>: the plugins that import finds
Loadable == {"wordsearch"}

-----------------------------------------------------------------------------
(* get_sub_command *)

\* names.index(arg): the first place of arg in names
FirstIndex(cmds, arg) ==
    CHOOSE i \in 1..Len(cmds) :
        cmds[i].name = arg /\ \A j \in 1..(i - 1) : cmds[j].name # arg

\* for arg in cmd_args[1:]: k is the place of arg in cmd_args (1-based);
\* matched collects the places of the tokens taken as sub-command names
RECURSIVE SubCommandLoop(_, _, _, _, _)
SubCommandLoop(command, cmd_args, k, new_index, matched) ==
    IF k > Len(cmd_args)
    THEN [command |-> command, new_index |-> new_index, matched |-> matched]
    ELSE IF \E i \in 1..Len(command.sub_commands) :
                command.sub_commands[i].name = cmd_args[k]
    THEN SubCommandLoop(command.sub_commands[FirstIndex(command.sub_commands, cmd_args[k])],
                        cmd_args, k + 1, new_index + 1, Append(matched, k))
    ELSE SubCommandLoop(command, cmd_args, k + 1, new_index, matched)

\* return command, cmd_args[new_index:], new_index
GetSubCommand(command, cmd_args) ==
    LET w == SubCommandLoop(command, cmd_args, 2, 0, <<>>)
    IN  [command |-> w.command,
         cmd_args |-> SubSeq(cmd_args, w.new_index + 1, Len(cmd_args)),
         start_index |-> w.new_index,
         matched |-> w.matched]

-----------------------------------------------------------------------------
(* parse_command and on_message *)

CommandTokens == {"!plugin", "!lambda", "!wordsearch"}
FirstTokens == CommandTokens \cup {"!", "Math"}
RestTokens == {"reload", "load", "add", "Math", "7"}

\* cmd_args[0][1:] if cmd_args[0].startswith(utils.command_prefix) and
\* len(cmd_args[0]) > 1, else ""
CommandName(tok) ==
    CASE tok = "!plugin" -> "plugin"
      [] tok = "!lambda" -> "lambda"
      [] tok = "!wordsearch" -> "wordsearch"
      [] OTHER -> ""

\* utils.get_command(plugin, cmd): the plugin's top-level command of that name
GetCommand(cmds, cmd) ==
    IF \E i \in 1..Len(cmds) : cmds[i].name = cmd
    THEN cmds[FirstIndex(cmds, cmd)]
    ELSE NoCommand

\* plugins.get_plugin("builtin").cmd_help: the attribute exists only if the
\* builtin plugin is loaded and its module defines cmd_help
HasCmdHelp(loaded) ==
    /\ \E i \in 1..Len(loaded) : loaded[i] = "builtin"
    /\ "cmd_help" \in ModuleAttrs("builtin")

\* a parse_command that forgets "command = None"
ParseOutcomeKeepCommand(res, command, loaded) ==
    IF res.raised THEN "raise" ELSE "ok"

\* the part of parse_command after the binder returned
ParseOutcome(res, command, loaded) ==
    IF res.raised THEN "raise"
    ELSE IF res.complete THEN "ok"
    ELSE IF command.error # "" THEN "error"
    ELSE IF HasCmdHelp(loaded) THEN "help"
    ELSE "raise"

\* What parse_command does up to its first await: the walk, the binding and,
\* when binding is incomplete, the choice of the reply. outcome is "ok"
\* (returns the command), "error" or "help" (suspends sending the reply, then
\* returns None for the command) or "raise".
ParseCommand(command, cmd_args, loaded) ==
    LET sub == GetSubCommand(command, cmd_args)
        res == ParseCommandArgs(<<ClientParam, MessageParam>> \o sub.command.params,
                                sub.cmd_args, sub.start_index, cmd_args)
    IN  [sub |-> sub, res |-> res, outcome |-> ParseOutcome(res, sub.command, loaded)]

\* if command: client.loop.create_task(command.function(client, message, *args, **kwargs))
CommandTask(pl, parsed) ==
    [plugin |-> pl, kind |-> "command", function |-> parsed.sub.command.function,
     args |-> parsed.res.args, kwargs |-> parsed.res.kwargs]

\* if getattr(plugin, "on_message", False): client.loop.create_task(...)
ScheduleHook(pl, tasks) ==
    IF "on_message" \in ModuleAttrs(pl)
    THEN Append(tasks, [plugin |-> pl, kind |-> "hook", function |-> "on_message",
                        args |-> <<>>, kwargs |-> <<>>])
    ELSE tasks

BindEntry(pl, top, parsed) ==
    [plugin |-> pl, top |-> top.name, function |-> parsed.sub.command.function,
     error |-> parsed.sub.command.error, start_index |-> parsed.sub.start_index,
     matched |-> parsed.sub.matched, complete |-> parsed.res.complete,
     raised |-> parsed.res.raised, args |-> parsed.res.args,
     kwargs |-> parsed.res.kwargs, log |-> parsed.res.log,
     params |-> parsed.sub.command.params]

NoPending == [plugin |-> "", text |-> ""]

\* "for plugin in plugins.all_values()" from the d.it-th plugin on, up to the
\* next await, the end of the loop or an exception. The iterator of a dict
\* raises RuntimeError when the dict changed size since the loop began.
\* on_message for one plugin whose command matched, parse_command having
\* got as far as parsed
RECURSIVE RunLoop(_, _, _)
Visit(loaded, toks, d, pl, cmd, command, parsed) ==
    LET d1 == [d EXCEPT !.bindlog = Append(@, BindEntry(pl, command, parsed))]
    IN
    CASE parsed.outcome = "raise" -> [d1 EXCEPT !.pc = "raised"]
      [] parsed.outcome = "error" ->
           [d1 EXCEPT !.pc = "reply",
                      !.pending = [plugin |-> pl, text |-> parsed.sub.command.error]]
      [] parsed.outcome = "help" ->
           [d1 EXCEPT !.pc = "reply",
                      !.pending = [plugin |-> pl, text |-> "usage of " \o cmd]]
      [] OTHER ->
           RunLoop(loaded, toks,
                   [d1 EXCEPT !.scheduled =
                                  ScheduleHook(pl, Append(@, CommandTask(pl, parsed))),
                              !.it = @ + 1])

RunLoop(loaded, toks, d) ==
    IF Len(loaded) # d.it_size THEN [d EXCEPT !.pc = "raised"]
    ELSE IF d.it > Len(loaded) THEN [d EXCEPT !.pc = "done"]
    ELSE
        LET pl == loaded[d.it]
            cmd == CommandName(toks[1])
            command == IF cmd # "" THEN GetCommand(UnitCommands(pl), cmd) ELSE NoCommand
        IN
        IF command = NoCommand
        THEN RunLoop(loaded, toks,
                     [d EXCEPT !.scheduled = ScheduleHook(pl, @), !.it = @ + 1])
        ELSE Only({Visit(loaded, toks, dv, pl, cmd, command, parsed) :
                       dv \in {d}, parsed \in {ParseCommand(command, toks, loaded)}})

\* the locals of on_message as a record, and back
Dispatcher ==
    [pc |-> pc, it |-> it, it_size |-> it_size, pending |-> pending,
     scheduled |-> scheduled, sent |-> sent, bindlog |-> bindlog]

SetDispatcher(d) ==
    /\ pc' = d.pc
    /\ it' = d.it
    /\ it_size' = d.it_size
    /\ pending' = d.pending
    /\ scheduled' = d.scheduled
    /\ sent' = d.sent
    /\ bindlog' = d.bindlog

Messages ==
    [author : {"user", "bot"},
     tokens : {<<>>} \cup
              UNION {{<<f>> \o r : f \in FirstTokens, r \in [1..n -> RestTokens]} :
                     n \in 0..(MaxTokens - 1)}]

-----------------------------------------------------------------------------
(* plugins/__init__.py: the dict of loaded plugins *)

\* the plugins the management commands are given: the builtin plugin (package
\* pcbot) and two plugins of plugins/ that define a save hook
ManagedNames == {"builtin", "p", "q"}

\* getattr(plugin, "save", False): pcbot/builtin.py defines no save
HasSave(name) == name # "builtin"

\* the decorated functions of a plugin of plugins/, in source order
PluginDecls ==
    << Decl("a", "a", <<>>, "", <<>>),
       Decl("s", "s", <<>>, "", <<1>>),
       Decl("b", "b", <<>>, "", <<>>) >>

UnitDecls(name) == IF name = "builtin" THEN BuiltinDecls ELSE PluginDecls

\* the keys of the dict
Live(e) == {e[i] : i \in 1..Len(e)} \ {""}

\* name in plugins
IsLoaded(e, name) == name \in Live(e)

\* len(plugins)
DictSize(e) == Cardinality(Live(e))

\* the entries without the deleted ones, as a rebuilt dict holds them
RECURSIVE Compact(_)
Compact(e) ==
    IF e = <<>> THEN <<>>
    ELSE IF e[1] = "" THEN Compact(Tail(e))
    ELSE <<e[1]>> \o Compact(Tail(e))

\* a dict that puts a new key into the place of the first deleted one
DictSetReusing(e, name, rebuild) ==
    IF IsLoaded(e, name) THEN e
    ELSE IF \E i \in 1..Len(e) : e[i] = ""
    THEN [e EXCEPT ![CHOOSE i \in 1..Len(e) : e[i] = "" /\ \A j \in 1..(i - 1) : e[j] # ""] = name]
    ELSE Append(e, name)

\* plugins[name] = plugin: an existing key keeps its place, a new key goes to
\* the end (the dict keeps the order of insertion); rebuild tells whether the
\* insertion rebuilds the dict first
DictSet(e, name, rebuild) ==
    IF IsLoaded(e, name) THEN e
    ELSE Append(IF rebuild THEN Compact(e) ELSE e, name)

\* del plugins[name]
DictDel(e, name) == [i \in 1..Len(e) |-> IF e[i] = name THEN "" ELSE e[i]]

\* next() of an iterator over the keys that stands at entry cur and was made
\* when the dict had size keys
IterNext(e, cur, size) ==
    IF DictSize(e) # size THEN [t |-> "raise", i |-> 0]
    ELSE IF \E i \in (cur + 1)..Len(e) : e[i] # ""
    THEN [t |-> "item",
          i |-> CHOOSE i \in (cur + 1)..Len(e) :
                    e[i] # "" /\ \A j \in (cur + 1)..(i - 1) : e[j] = ""]
    ELSE [t |-> "end", i |-> 0]

-----------------------------------------------------------------------------
(* plugins/__init__.py: load_plugin, reload_plugin, unload_plugin *)

UnitStates == {"ok", "missing", "syntax", "midway"}

NoModule == [imported |-> FALSE, has |-> FALSE, cmds |-> <<>>]

\* Executing the module of a plugin: the decorators run in source order. A
\* file with a syntax error raises before any of them ran, "midway" is a file
\* whose top-level code raises after its first decorated function.
ExecModule(name, unit) ==
    CASE unit = "ok" ->
           [raised |-> FALSE, has |-> TRUE, cmds |-> RegisterAll(<<>>, UnitDecls(name))]
      [] unit = "midway" ->
           [raised |-> TRUE, has |-> TRUE,
            cmds |-> RegisterAll(<<>>, SubSeq(UnitDecls(name), 1, 1))]
      [] OTHER -> [raised |-> TRUE, has |-> FALSE, cmds |-> <<>>]

\* load_plugin(name): "True", "False" or "raised". A module that is still
\* imported is not executed again; the builtin plugin is not in plugins/.
load_plugin(e, ms, us, name, rebuild) ==
    IF name \notin ManagedNames
    THEN [entries |-> e, mods |-> ms, outcome |-> "False"]
    ELSE IF ms[name].imported /\ name # "builtin"
    THEN [entries |-> DictSet(e, name, rebuild), mods |-> ms, outcome |-> "True"]
    ELSE IF name = "builtin" \/ us[name] = "missing"
    THEN [entries |-> e, mods |-> ms, outcome |-> "False"]
    ELSE LET x == ExecModule(name, us[name])
         IN  IF x.raised
             THEN [entries |-> e, mods |-> ms, outcome |-> "raised"]
             ELSE [entries |-> DictSet(e, name, rebuild),
                   mods |-> [ms EXCEPT ![name] =
                                [imported |-> TRUE, has |-> x.has, cmds |-> x.cmds]],
                   outcome |-> "True"]

\* a reload that keeps __commands and registers without looking at the names
reload_plugin_keeping(e, ms, us, name) ==
    IF ~IsLoaded(e, name) THEN [mods |-> ms, raised |-> FALSE]
    ELSE [mods |-> [ms EXCEPT ![name].cmds = @ \o RegisterAll(<<>>, UnitDecls(name))],
          raised |-> FALSE]

\* reload_plugin(name): if the plugin is loaded, delete __commands and
\* execute the module again
reload_plugin(e, ms, us, name) ==
    IF ~IsLoaded(e, name) THEN [mods |-> ms, raised |-> FALSE]
    ELSE LET x == ExecModule(name, us[name])
         IN  [mods |-> [ms EXCEPT ![name] =
                           [imported |-> TRUE, has |-> x.has, cmds |-> x.cmds]],
              raised |-> x.raised]

\* an unload_plugin without "if name in plugins": del raises KeyError
unload_plugin_unguarded(e, name) ==
    [entries |-> DictDel(e, name), raised |-> ~IsLoaded(e, name)]

\* unload_plugin(name)
unload_plugin(e, name) ==
    IF IsLoaded(e, name) THEN [entries |-> DictDel(e, name), raised |-> FALSE]
    ELSE [entries |-> e, raised |-> FALSE]

-----------------------------------------------------------------------------
(* plugins/__init__.py: save_plugin, save_plugins; the tasks that call them *)

\* what a save hook does when it is called: it returns, raises an exception,
\* raises TypeError, or suspends at an await and returns later
HookKinds == {"return", "exc", "typeerr", "suspend"}

\* A coroutine that saves: a reload, reload-all or unload command, or the
\* autosave task. cur and size are the iterator of save_plugins, hook the
\* plugin whose save hook the task is suspended in, saved the plugins whose
\* save hook the task has called, logged those whose failure it has logged,
\* reloads the calls of reload_plugin on a loaded plugin it has made, live_end
\* the loaded plugins when its save_plugins ended.
NoTask ==
    [kind |-> "none", name |-> "", pc |-> "idle", cur |-> 0, size |-> 0, hook |-> "",
     saved |-> {}, logged |-> {}, reloads |-> <<>>, live_end |-> {}]

NewTask(kind, name, e) ==
    [NoTask EXCEPT !.kind = kind, !.name = name, !.pc = "run", !.size = DictSize(e)]

\* save_plugin(name) up to the await of the hook or to its return
save_plugin(e, hs, name, t) ==
    IF IsLoaded(e, name) /\ HasSave(name)
    THEN LET t1 == [t EXCEPT !.saved = @ \cup {name}]
         IN  CASE hs[name] = "suspend" -> [t1 EXCEPT !.pc = "saving", !.hook = name]
               [] hs[name] = "exc" -> [t1 EXCEPT !.logged = @ \cup {name}]
               [] OTHER -> t1
    ELSE t

\* save_plugins() from the iterator's place on, up to the next await, the end
\* of the loop ("saved") or the RuntimeError of the iterator ("raised")
RECURSIVE save_plugins(_, _, _)
save_plugins(e, hs, t) ==
    LET nx == IterNext(e, t.cur, t.size)
    IN  CASE nx.t = "raise" -> [t EXCEPT !.pc = "raised", !.live_end = Live(e)]
          [] nx.t = "end" -> [t EXCEPT !.pc = "saved", !.live_end = Live(e)]
          [] OTHER ->
               Only({IF t1.pc = "saving" THEN t1 ELSE save_plugins(e, hs, t1) :
                        t1 \in {save_plugin(e, hs, e[nx.i], [t EXCEPT !.cur = nx.i])}})

\* What the last step did: the call it ended with, its argument and outcome
\* and, when it ended a task, what that task had saved, logged and reloaded;
\* again tells that it reloaded the plugin the step before it had reloaded.
NoOp ==
    [op |-> "none", name |-> "", outcome |-> "", again |-> FALSE,
     saved |-> {}, logged |-> {}, reloads |-> <<>>, live_end |-> {}]

Op(op, name, outcome) == [NoOp EXCEPT !.op = op, !.name = name, !.outcome = outcome]

Report(t, op) ==
    IF t.pc = "saving" THEN op
    ELSE [op EXCEPT !.saved = t.saved, !.logged = t.logged,
                    !.reloads = t.reloads, !.live_end = t.live_end,
                    !.again = /\ op.op = "reload_plugin"
                              /\ last_op.op = "reload_plugin"
                              /\ last_op.name = op.name]

\* a command task that is over is gone
Remaining(t) == IF t.pc = "saving" THEN t ELSE NoTask

\* the autosave task sleeps again after save_plugins, and is over when
\* save_plugins raised
Sleeping == [NoTask EXCEPT !.kind = "autosave", !.pc = "sleeping"]
Dead == [NoTask EXCEPT !.kind = "autosave", !.pc = "dead"]

RemainingAuto(t) ==
    CASE t.pc = "saving" -> t
      [] t.pc = "raised" -> Dead
      [] OTHER -> Sleeping

\* the reload of one plugin as a task records it
Reloaded(e, t, name) ==
    IF IsLoaded(e, name)
    THEN [t EXCEPT !.reloads = Append(@, [name |-> name, saved |-> name \in t.saved])]
    ELSE t

\* "for plugin_name in plugins.all_keys(): plugins.reload_plugin(plugin_name)"
RECURSIVE ReloadEach(_, _, _, _, _)
ReloadEach(e, ms, us, names, t) ==
    IF names = <<>> THEN [t |-> [t EXCEPT !.pc = "done"], mods |-> ms]
    ELSE Only({IF r.raised
               THEN [t |-> [Reloaded(e, t, names[1]) EXCEPT !.pc = "raised"], mods |-> r.mods]
               ELSE ReloadEach(e, r.mods, us, Tail(names), Reloaded(e, t, names[1])) :
                   r \in {reload_plugin(e, ms, us, names[1])}})

\* What a command does once its save_plugin or save_plugins is over (t.pc is
\* "run", "saved" or "raised"), up to its last await.
AfterSave(e, ms, us, t) ==
    CASE t.kind = "reload" ->
           LET r == reload_plugin(e, ms, us, t.name)
           IN  [t |-> [Reloaded(e, t, t.name) EXCEPT
                          !.pc = IF r.raised THEN "raised" ELSE "done"],
                entries |-> e, mods |-> r.mods,
                op |-> Op("reload_plugin", t.name, IF r.raised THEN "raised" ELSE "ok")]
      [] t.kind = "unload" ->
           LET u == unload_plugin(e, t.name)
           IN  [t |-> [t EXCEPT !.pc = IF u.raised THEN "raised" ELSE "done"],
                entries |-> u.entries, mods |-> ms,
                op |-> Op("unload_plugin", t.name,
                          CASE u.raised -> "raised"
                            [] IsLoaded(e, t.name) -> "removed"
                            [] OTHER -> "absent")]
      [] t.kind = "reloadall" /\ t.pc = "saved" ->
           LET r == ReloadEach(e, ms, us, Compact(e), t)
           IN  [t |-> r.t, entries |-> e, mods |-> r.mods,
                op |-> Op("reload_all", "", r.t.pc)]
      [] OTHER ->
           [t |-> t, entries |-> e, mods |-> ms, op |-> Op("save_plugins", "", t.pc)]

\* A task from its start or from the return of the hook it was suspended in,
\* up to its next await
RunTask(e, ms, us, hs, t) ==
    IF t.kind \in {"reload", "unload"}
    THEN IF t.pc = "run" /\ ~IsLoaded(e, t.name)
         THEN [t |-> [t EXCEPT !.pc = "done"], entries |-> e, mods |-> ms, op |-> NoOp]
         ELSE Only({IF t1.pc = "saving"
                    THEN [t |-> t1, entries |-> e, mods |-> ms,
                          op |-> Op("suspend", t1.hook, "")]
                    ELSE AfterSave(e, ms, us, t1) :
                        t1 \in {IF t.pc = "run" THEN save_plugin(e, hs, t.name, t)
                                ELSE [t EXCEPT !.pc = "run", !.hook = ""]}})
    ELSE Only({IF t1.pc = "saving"
               THEN [t |-> t1, entries |-> e, mods |-> ms,
                     op |-> Op("suspend", t1.hook, "")]
               ELSE AfterSave(e, ms, us, t1) :
                   t1 \in {save_plugins(e, hs, [t EXCEPT !.pc = "run", !.hook = ""])}})

-----------------------------------------------------------------------------
(* The binder on its own: every well-formed signature against every short  *)
(* message, with and without one sub-command name before the arguments.    *)

NoResult ==
    [args |-> <<>>, kwargs |-> <<>>, complete |-> FALSE, raised |-> FALSE, log |-> <<>>]

\* the tokens parse_command hands to the binder: cmd_args[new_index:]
CmdArgs == SubSeq(content, start_index + 1, Len(content))

NoRegistration == [name |-> "", parent |-> <<>>, taken |-> FALSE, raised |-> FALSE]

BindIdle ==
    /\ signature = <<>>
    /\ content = <<>>
    /\ start_index = 0
    /\ result = NoResult
    /\ bphase = "off"

NoWalk ==
    [top |-> "", tokens |-> <<>>, function |-> "", start_index |-> 0,
     matched |-> <<>>, cmd_args |-> <<>>]

RegIdle ==
    /\ commands = <<>>
    /\ last_reg = NoRegistration
    /\ walk = NoWalk

ManIdle ==
    /\ entries = <<>>
    /\ mods = [n \in ManagedNames |-> NoModule]
    /\ units = [n \in ManagedNames |-> "ok"]
    /\ hooks = [n \in ManagedNames \ {"builtin"} |-> "return"]
    /\ coros = [i \in 1..MaxTasks |-> NoTask]
    /\ auto = NoTask
    /\ last_op = NoOp

NoLambda == [op |-> "none", trigger |-> "", outcome |-> ""]

LamIdle ==
    /\ lambdas = {}
    /\ blacklist = <<>>
    /\ asked = {}
    /\ lam_last = NoLambda

MaxInvocations == 2

NoSetowner == [pc |-> "idle", author |-> "", wrong |-> FALSE]

OwnIdle ==
    /\ owner = ""
    /\ setowners = [i \in 1..MaxInvocations |-> NoSetowner]
    /\ ends = {}

MaxSessions == 2

NoSession ==
    [pc |-> "idle", channel |-> "", word |-> <<>>, hint |-> <<>>, tries |-> 0,
     wrong |-> FALSE]

NoStep ==
    [op |-> "none", channel |-> "", word |-> <<>>, guess |-> <<>>,
     before |-> <<>>, hint |-> <<>>, outcome |-> "", wrong |-> FALSE]

WsIdle ==
    /\ wordsearch = <<>>
    /\ sessions = [i \in 1..MaxSessions |-> NoSession]
    /\ ws_last = NoStep

AppIdle == LamIdle /\ OwnIdle /\ WsIdle

DispIdle ==
    /\ plugins = <<>>
    /\ msg = [author |-> "user", tokens |-> <<>>]
    /\ pc = "off"
    /\ it = 0
    /\ it_size = 0
    /\ pending = NoPending
    /\ scheduled = <<>>
    /\ sent = <<>>
    /\ bindlog = <<>>
    /\ failures = "no"
    /\ loop_running = TRUE

BindInit ==
    /\ \E ps \in ParamLists : signature = <<ClientParam, MessageParam>> \o ps
    /\ \E st \in 0..1, ts \in TokenLists :
          /\ start_index = st
          /\ content = (IF st = 0 THEN <<"!cmd">> ELSE <<"!cmd", "sub">>) \o ts
    /\ result = NoResult
    /\ bphase = "input"
    /\ RegIdle
    /\ DispIdle
    /\ ManIdle
    /\ AppIdle

Bind ==
    /\ bphase = "input"
    /\ result' = ParseCommandArgs(signature, CmdArgs, start_index, content)
    /\ bphase' = "bound"
    /\ UNCHANGED <<signature, content, start_index>>
    /\ UNCHANGED <<regvars, dispvars, manvars, appvars>>

BindNext == Bind

SpecBind == BindInit /\ [][BindNext]_vars

-----------------------------------------------------------------------------
(* One plugin module being executed: its uses of the decorator, in any     *)
(* order, under any command registered so far.                             *)

CommandNames == {"a", "b"}

\* the number of commands of a tree
RECURSIVE Size(_)
Size(cmds) ==
    IF cmds = <<>> THEN 0
    ELSE 1 + Size(cmds[1].sub_commands) + Size(Tail(cmds))

RegInit ==
    /\ commands = <<>>
    /\ last_reg = NoRegistration
    /\ walk = NoWalk
    /\ BindIdle
    /\ DispIdle
    /\ ManIdle
    /\ AppIdle

WalkTokens == CommandNames \cup {"x"}

WalkLists == UNION {[1..n -> WalkTokens] : n \in 0..MaxWalkTokens}

\* @plugins.command(name=name) or @parent.command(name=name) on the n-th
\* decorated function of the module, here named f<n>
RegisterCommand ==
    /\ walk = NoWalk
    /\ Size(commands) < MaxRegistrations
    /\ \E name \in CommandNames, parent \in {<<>>} \cup Paths(commands) :
          LET decl == Decl(name, "f" \o ToString(Size(commands) + 1), <<>>, "", parent)
              r == Register(commands, decl)
          IN  /\ commands' = r.commands
              /\ last_reg' = [name |-> name, parent |-> parent,
                              taken |-> \E i \in 1..Len(Siblings(commands, parent)) :
                                            Siblings(commands, parent)[i].name = name,
                              raised |-> r.raised]
    /\ UNCHANGED walk
    /\ UNCHANGED <<bindvars, dispvars, manvars, appvars>>

\* the module is imported; a message naming one of its top-level commands
\* arrives and parse_command calls get_sub_command
Walk ==
    /\ \E i \in 1..Len(commands), ts \in WalkLists :
          LET toks == <<"!" \o commands[i].name>> \o ts
              sub == GetSubCommand(GetCommand(commands, commands[i].name), toks)
          IN  walk' = [top |-> commands[i].name, tokens |-> toks,
                       function |-> sub.command.function,
                       start_index |-> sub.start_index, matched |-> sub.matched,
                       cmd_args |-> sub.cmd_args]
    /\ UNCHANGED <<commands, last_reg>>
    /\ UNCHANGED <<bindvars, dispvars, manvars, appvars>>

RegNext == RegisterCommand \/ Walk

SpecReg == RegInit /\ [][RegNext]_vars

-----------------------------------------------------------------------------
(* Dispatch: messages arrive one at a time; while on_message is suspended  *)
(* or between messages, the tasks of the load and unload commands change   *)
(* the loaded plugins.                                                     *)

DispInit ==
    /\ plugins = <<"builtin", "wordsearch">>
    /\ msg = [author |-> "user", tokens |-> <<>>]
    /\ pc = "idle"
    /\ it = 0
    /\ it_size = 0
    /\ pending = NoPending
    /\ scheduled = <<>>
    /\ sent = <<>>
    /\ bindlog = <<>>
    /\ failures = "no"
    /\ loop_running = TRUE
    /\ BindIdle
    /\ RegIdle
    /\ ManIdle
    /\ AppIdle

\* an exception that leaves a coroutine the loop runs as a task
\* hypothetically ends the loop
AfterUncaughtException(running) == FALSE

\* client.loop.create_task(...): an exception that leaves the coroutine of a
\* task is kept in the task, and the loop goes on with the other tasks
AfterTaskException(running) == running

\* on_message(message) up to its first await or its end
Receive ==
    /\ pc = "idle"
    /\ loop_running
    /\ \E m \in Messages :
          /\ msg' = m
          /\ LET d0 == [pc |-> "loop", it |-> 1, it_size |-> Len(plugins),
                        pending |-> NoPending, scheduled |-> <<>>, sent |-> <<>>,
                        bindlog |-> <<>>]
             IN  IF m.author = "bot" \/ m.tokens = <<>>
                 THEN SetDispatcher([d0 EXCEPT !.pc = "done"])
                 ELSE \E d \in {RunLoop(plugins, m.tokens, d0)} : SetDispatcher(d)
    /\ UNCHANGED <<plugins, failures, loop_running>>
    /\ UNCHANGED <<bindvars, regvars, manvars, appvars>>

\* client.send_message (or cmd_help) returned: parse_command sets command to
\* None and returns, on_message schedules the hook of the plugin it was
\* visiting and goes on with the loop
ReplyDone ==
    /\ pc = "reply"
    /\ loop_running
    /\ \E d \in {RunLoop(plugins, msg.tokens,
                        [Dispatcher EXCEPT !.pc = "loop",
                                           !.sent = Append(@, pending),
                                           !.pending = NoPending,
                                           !.scheduled = ScheduleHook(pending.plugin, @),
                                           !.it = @ + 1])} :
          SetDispatcher(d)
    /\ UNCHANGED <<plugins, msg, failures, loop_running>>
    /\ UNCHANGED <<bindvars, regvars, manvars, appvars>>

\* the coroutine of on_message ended, by returning or by an exception that
\* the event loop reports; the client waits for the next message
Finish ==
    /\ pc \in {"done", "raised"}
    /\ pc' = "idle"
    /\ msg' = [author |-> "user", tokens |-> <<>>]
    /\ it' = 0
    /\ it_size' = 0
    /\ pending' = NoPending
    /\ scheduled' = <<>>
    /\ sent' = <<>>
    /\ bindlog' = <<>>
    /\ failures' = IF failures = "now" THEN "before" ELSE failures
    /\ UNCHANGED <<plugins, loop_running>>
    /\ UNCHANGED <<bindvars, regvars, manvars, appvars>>

\* a command handler or an on_message hook that on_message has scheduled for
\* this message runs as a task and raises
TaskRaises ==
    /\ loop_running
    /\ scheduled # <<>>
    /\ failures' = "now"
    /\ loop_running' = AfterTaskException(loop_running)
    /\ UNCHANGED <<plugins, msg, pc, it, it_size, pending, scheduled, sent, bindlog>>
    /\ UNCHANGED <<bindvars, regvars, manvars, appvars>>

\* plugins.load_plugin(name), as the task of "plugin load" calls it
LoadPlugin ==
    /\ \E name \in Loadable :
          /\ \A i \in 1..Len(plugins) : plugins[i] # name
          /\ plugins' = Append(plugins, name)
    /\ UNCHANGED <<msg, pc, it, it_size, pending, scheduled, sent, bindlog,
                   failures, loop_running>>
    /\ UNCHANGED <<bindvars, regvars, manvars, appvars>>

\* plugins.unload_plugin(name), as the task of "plugin unload" calls it
UnloadPlugin ==
    /\ \E i \in 1..Len(plugins) :
          plugins' = SubSeq(plugins, 1, i - 1) \o SubSeq(plugins, i + 1, Len(plugins))
    /\ UNCHANGED <<msg, pc, it, it_size, pending, scheduled, sent, bindlog,
                   failures, loop_running>>
    /\ UNCHANGED <<bindvars, regvars, manvars, appvars>>

DispNext == Receive \/ ReplyDone \/ Finish \/ TaskRaises \/ LoadPlugin \/ UnloadPlugin

SpecDispatch == DispInit /\ [][DispNext]_vars

-----------------------------------------------------------------------------
(* The plugin commands of pcbot/builtin.py and the autosave task of bot.py *)

\* the module of a plugin after it was executed without an error
Imported(name) ==
    [imported |-> TRUE, has |-> TRUE, cmds |-> RegisterAll(<<>>, UnitDecls(name))]

\* The bot after start: builtin and the plugins of plugins/ are loaded and
\* the autosave task sleeps.
Started ==
    /\ BindIdle /\ RegIdle /\ DispIdle /\ AppIdle
    /\ units = [n \in ManagedNames |-> IF IsLoaded(entries, n) THEN "ok" ELSE "missing"]
    /\ mods = [n \in ManagedNames |-> IF IsLoaded(entries, n) THEN Imported(n) ELSE NoModule]
    /\ coros = [i \in 1..MaxTasks |-> NoTask]
    /\ auto = Sleeping
    /\ last_op = NoOp

\* The plugin commands while the files of plugins/ change: q may be added to
\* plugins/ after the start, and every save hook returns without an await.
ManInit ==
    /\ entries \in {<<"builtin", "p", "q">>, <<"builtin", "p">>}
    /\ hooks = [n \in ManagedNames \ {"builtin"} |-> "return"]
    /\ Started

\* The plugin commands and the autosave task while save hooks fail or
\* suspend: the save hook of p has any of the behaviours.
SaveInit ==
    /\ entries = <<"builtin", "p", "q">>
    /\ hooks \in {h \in [ManagedNames \ {"builtin"} -> HookKinds] : h["q"] = "return"}
    /\ Started

\* on_message finds the plugin commands in the builtin plugin
CanCommand == IsLoaded(entries, "builtin")

\* the coroutines that are suspended in a save hook: at most MaxTasks
Suspended ==
    Cardinality({i \in 1..MaxTasks : coros[i].pc = "saving"})
        + (IF auto.pc = "saving" THEN 1 ELSE 0)

\* the place of a new command task: the first one that is not suspended
FreeSlot(i) ==
    /\ coros[i].pc # "saving"
    /\ \A j \in 1..(i - 1) : coros[j].pc = "saving"

\* "!plugin reload <name>"
ReloadCmd ==
    \E i \in 1..MaxTasks, name \in ManagedNames :
        /\ CanCommand
        /\ FreeSlot(i)
        /\ \E r \in {RunTask(entries, mods, units, hooks, NewTask("reload", name, entries))} :
              /\ r.t.pc = "saving" => Suspended < MaxTasks
              /\ coros' = [coros EXCEPT ![i] = Remaining(r.t)]
              /\ entries' = r.entries
              /\ mods' = r.mods
              /\ last_op' = Report(r.t, r.op)
        /\ UNCHANGED <<units, hooks, auto>>
        /\ UNCHANGED <<bindvars, regvars, dispvars, appvars>>

\* "!plugin reload"
ReloadAllCmd ==
    \E i \in 1..MaxTasks :
        /\ CanCommand
        /\ FreeSlot(i)
        /\ \E r \in {RunTask(entries, mods, units, hooks, NewTask("reloadall", "", entries))} :
              /\ r.t.pc = "saving" => Suspended < MaxTasks
              /\ coros' = [coros EXCEPT ![i] = Remaining(r.t)]
              /\ entries' = r.entries
              /\ mods' = r.mods
              /\ last_op' = Report(r.t, r.op)
        /\ UNCHANGED <<units, hooks, auto>>
        /\ UNCHANGED <<bindvars, regvars, dispvars, appvars>>

\* "!plugin unload <name>"
UnloadCmd ==
    \E i \in 1..MaxTasks, name \in ManagedNames :
        /\ CanCommand
        /\ FreeSlot(i)
        /\ \E r \in {RunTask(entries, mods, units, hooks, NewTask("unload", name, entries))} :
              /\ r.t.pc = "saving" => Suspended < MaxTasks
              /\ coros' = [coros EXCEPT ![i] = Remaining(r.t)]
              /\ entries' = r.entries
              /\ mods' = r.mods
              /\ last_op' = Report(r.t, r.op)
        /\ UNCHANGED <<units, hooks, auto>>
        /\ UNCHANGED <<bindvars, regvars, dispvars, appvars>>

\* "!plugin load <name>" of a plugin that is not loaded
LoadCmd ==
    \E name \in ManagedNames, rebuild \in BOOLEAN :
        /\ CanCommand
        /\ ~IsLoaded(entries, name)
        /\ rebuild => Len(entries) > DictSize(entries)
        /\ Len(entries) >= MaxEntries => rebuild
        /\ \E r \in {load_plugin(entries, mods, units, name, rebuild)} :
              /\ entries' = r.entries
              /\ mods' = r.mods
              /\ last_op' = Op("load_plugin", name, r.outcome)
        /\ UNCHANGED <<units, hooks, coros, auto>>
        /\ UNCHANGED <<bindvars, regvars, dispvars, appvars>>

\* the save hook a command is suspended in returns
HookReturns ==
    \E i \in 1..MaxTasks :
        /\ coros[i].pc = "saving"
        /\ \E r \in {RunTask(entries, mods, units, hooks, coros[i])} :
              /\ coros' = [coros EXCEPT ![i] = Remaining(r.t)]
              /\ entries' = r.entries
              /\ mods' = r.mods
              /\ last_op' = Report(r.t, r.op)
        /\ UNCHANGED <<units, hooks, auto>>
        /\ UNCHANGED <<bindvars, regvars, dispvars, appvars>>

\* asyncio.sleep(autosave_interval) is over
AutosaveWakes ==
    /\ auto.pc = "sleeping"
    /\ \E r \in {RunTask(entries, mods, units, hooks, NewTask("autosave", "", entries))} :
          /\ r.t.pc = "saving" => Suspended < MaxTasks
          /\ auto' = RemainingAuto(r.t)
          /\ last_op' = Report(r.t, r.op)
    /\ UNCHANGED <<entries, mods, units, hooks, coros>>
    /\ UNCHANGED <<bindvars, regvars, dispvars, appvars>>

\* the save hook the autosave task is suspended in returns
AutosaveHookReturns ==
    /\ auto.pc = "saving"
    /\ \E r \in {RunTask(entries, mods, units, hooks, auto)} :
          /\ auto' = RemainingAuto(r.t)
          /\ last_op' = Report(r.t, r.op)
    /\ UNCHANGED <<entries, mods, units, hooks, coros>>
    /\ UNCHANGED <<bindvars, regvars, dispvars, appvars>>

\* the plugin of plugins/ whose file is edited while the bot runs
Edited == {"q"}

\* the file of a plugin of plugins/ is written, broken or removed
EditUnit ==
    \E n \in Edited, u \in UnitStates :
        /\ u # units[n]
        /\ units' = [units EXCEPT ![n] = u]
        /\ last_op' = Op("edit", n, u)
        /\ UNCHANGED <<entries, mods, hooks, coros, auto>>
        /\ UNCHANGED <<bindvars, regvars, dispvars, appvars>>

ManNext ==
    \/ ReloadCmd
    \/ ReloadAllCmd
    \/ UnloadCmd
    \/ LoadCmd
    \/ EditUnit

SpecPlugins == ManInit /\ [][ManNext]_vars

SaveNext ==
    \/ ReloadCmd
    \/ ReloadAllCmd
    \/ UnloadCmd
    \/ LoadCmd
    \/ HookReturns
    \/ AutosaveWakes
    \/ AutosaveHookReturns

SpecSaves == SaveInit /\ [][SaveNext]_vars

\* The load and unload commands on their own, while every save hook suspends
UnloadInit ==
    /\ entries = <<"builtin", "p", "q">>
    /\ hooks = [n \in ManagedNames \ {"builtin"} |-> "suspend"]
    /\ Started

UnloadNext ==
    \/ UnloadCmd
    \/ LoadCmd
    \/ HookReturns

SpecUnload == UnloadInit /\ [][UnloadNext]_vars

-----------------------------------------------------------------------------
(* The lambda commands of pcbot/builtin.py.  Each command handler changes
   lambdas.data or the blacklist before its only await (the reply), so a
   handler is one step.  The handlers are owner commands; the steps below
   are the owner's invocations. *)

Triggers == {"t", "u"}

MaxBlacklist == 2

InList(list, x) == \E i \in DOMAIN list : list[i] = x

Lam(op, trigger, outcome) == [op |-> op, trigger |-> trigger, outcome |-> outcome]

\* lambdas.data and lambda_config.data are read from their files when the
\* module is imported; the defaults are {} and an empty blacklist.
LamInit ==
    /\ BindIdle /\ RegIdle /\ DispIdle /\ ManIdle /\ OwnIdle /\ WsIdle
    /\ lambdas = {}
    /\ blacklist \in {<<>>, <<"u">>}
    /\ asked = {}
    /\ lam_last = NoLambda

add ==
    \E trigger \in Triggers :
        /\ IF trigger \notin lambdas
             THEN /\ lambdas' = lambdas \cup {trigger}
                  /\ lam_last' = Lam("add", trigger, "set")
             ELSE /\ lambdas' = lambdas
                  /\ lam_last' = Lam("add", trigger, "already exists")
        /\ UNCHANGED <<blacklist, asked>>
        /\ UNCHANGED <<bindvars, regvars, dispvars, manvars, ownvars, wsvars>>

remove ==
    \E trigger \in Triggers :
        /\ IF trigger \in lambdas
             THEN /\ lambdas' = lambdas \ {trigger}
                  /\ lam_last' = Lam("remove", trigger, "removed")
             ELSE /\ lambdas' = lambdas
                  /\ lam_last' = Lam("remove", trigger, "does not exist")
        /\ asked' = asked \ {trigger}
        /\ UNCHANGED blacklist
        /\ UNCHANGED <<bindvars, regvars, dispvars, manvars, ownvars, wsvars>>

\* del on a list with a str index raises TypeError before anything changed.
enable ==
    \E trigger \in Triggers :
        /\ lam_last' =
              IF InList(blacklist, trigger)
                THEN Lam("enable", trigger, "raised")
                ELSE IF trigger \in lambdas
                       THEN Lam("enable", trigger, "already enabled")
                       ELSE Lam("enable", trigger, "does not exist")
        /\ asked' = asked \ {trigger}
        /\ UNCHANGED <<lambdas, blacklist>>
        /\ UNCHANGED <<bindvars, regvars, dispvars, manvars, ownvars, wsvars>>

disable ==
    \E trigger \in Triggers :
        /\ IF InList(blacklist, trigger)
             THEN /\ Len(blacklist) < MaxBlacklist
                  /\ blacklist' = Append(blacklist, trigger)
                  /\ lam_last' = Lam("disable", trigger, "disabled")
             ELSE /\ blacklist' = blacklist
                  /\ lam_last' =
                        IF trigger \in lambdas
                          THEN Lam("disable", trigger, "already disabled")
                          ELSE Lam("disable", trigger, "does not exist")
        /\ asked' = IF trigger \in lambdas /\ ~InList(blacklist, trigger)
                      THEN asked \cup {trigger}
                      ELSE asked
        /\ UNCHANGED lambdas
        /\ UNCHANGED <<bindvars, regvars, dispvars, manvars, ownvars, wsvars>>

\* The on_message hook of the builtin plugin, for a message whose first
\* token is the trigger.
on_message ==
    \E trigger \in Triggers :
        /\ lam_last' =
              IF trigger \in lambdas /\ ~InList(blacklist, trigger)
                THEN Lam("message", trigger, "executed")
                ELSE Lam("message", trigger, "ignored")
        /\ UNCHANGED <<lambdas, blacklist, asked>>
        /\ UNCHANGED <<bindvars, regvars, dispvars, manvars, ownvars, wsvars>>

LamNext == add \/ remove \/ enable \/ disable \/ on_message

SpecLambda == LamInit /\ [][LamNext]_vars

-----------------------------------------------------------------------------
(* setowner of pcbot/builtin.py.  The coroutine is suspended at each reply
   it sends and at wait_for_message; a step below runs it from one
   suspension to the next.  Replies go out through the transport's send. *)

Users == {"a", "b"}

End(cmd, by, wrong, outcome) ==
    [cmd |-> cmd, by |-> by, wrong |-> wrong, outcome |-> outcome]

OwnInit ==
    /\ BindIdle /\ RegIdle /\ DispIdle /\ ManIdle /\ LamIdle /\ WsIdle
    /\ owner = ""
    /\ setowners = [i \in 1..MaxInvocations |-> NoSetowner]
    /\ ends = {}

\* '!setowner' arrives: up to the first await, or to the return.
setowner ==
    \E i \in 1..MaxInvocations, author \in Users, is_private \in BOOLEAN :
        /\ setowners[i].pc = "idle"
        /\ IF ~is_private
             THEN /\ ends' = ends \cup {End("setowner", "channel", FALSE, "")}
                  /\ UNCHANGED setowners
             ELSE IF owner # ""
               THEN /\ ends' = ends \cup
                          {End("setowner", "check", FALSE, "An owner is already set.")}
                    /\ UNCHANGED setowners
               ELSE /\ setowners' = [setowners EXCEPT ![i] =
                          [pc |-> "say_code", author |-> author, wrong |-> FALSE]]
                    /\ UNCHANGED ends
        /\ UNCHANGED owner
        /\ UNCHANGED <<bindvars, regvars, dispvars, manvars, lamvars, wsvars>>

\* The reply "A code has been printed ..." is sent; wait_for_message starts.
CodeAnnounced ==
    \E i \in 1..MaxInvocations :
        /\ setowners[i].pc = "say_code"
        /\ setowners' = [setowners EXCEPT ![i].pc = "waiting"]
        /\ UNCHANGED <<owner, ends>>
        /\ UNCHANGED <<bindvars, regvars, dispvars, manvars, lamvars, wsvars>>

\* A message in the channel whose content is not the code: the filter of
\* wait_for_message drops it and the wait goes on.
OtherContent ==
    \E i \in 1..MaxInvocations :
        /\ setowners[i].pc = "waiting"
        /\ setowners' = [setowners EXCEPT ![i].wrong = TRUE]
        /\ UNCHANGED <<owner, ends>>
        /\ UNCHANGED <<bindvars, regvars, dispvars, manvars, lamvars, wsvars>>

\* The code arrives: user_code is the message, "You have been assigned bot
\* owner." is being sent.
CodeRepeated ==
    \E i \in 1..MaxInvocations :
        /\ setowners[i].pc = "waiting"
        /\ setowners' = [setowners EXCEPT ![i].pc = "say_assigned"]
        /\ UNCHANGED <<owner, ends>>
        /\ UNCHANGED <<bindvars, regvars, dispvars, manvars, lamvars, wsvars>>

\* The reply is sent; the author is stored as the owner.
Assign ==
    \E i \in 1..MaxInvocations :
        /\ setowners[i].pc = "say_assigned"
        /\ owner' = setowners[i].author
        /\ ends' = ends \cup {End("setowner", "code", setowners[i].wrong,
                                  "You have been assigned bot owner.")}
        /\ setowners' = [setowners EXCEPT ![i] = NoSetowner]
        /\ UNCHANGED <<bindvars, regvars, dispvars, manvars, lamvars, wsvars>>

\* The 60 seconds pass: user_code is None.
CodeTimeout ==
    \E i \in 1..MaxInvocations :
        /\ setowners[i].pc = "waiting"
        /\ ends' = ends \cup {End("setowner", "timeout", setowners[i].wrong,
                                  "You failed to send the desired code.")}
        /\ setowners' = [setowners EXCEPT ![i] = NoSetowner]
        /\ UNCHANGED owner
        /\ UNCHANGED <<bindvars, regvars, dispvars, manvars, lamvars, wsvars>>

OwnNext ==
    setowner \/ CodeAnnounced \/ OtherContent \/ CodeRepeated \/ Assign \/ CodeTimeout

SpecOwner == OwnInit /\ [][OwnNext]_vars

-----------------------------------------------------------------------------
(* plugins/wordsearch.py.  start_wordsearch is a coroutine of its own task;
   a step below runs one coroutine from one suspension (a send or a
   wait_for_message) to the next.  Words and guesses are strings over
   Letters, written as sequences; a guess is the message without its "!". *)

Channels == {"c"}

Letters == {"a", "b"}

MaxWordLen == 2

MaxTries == 2

Words == UNION {[1..n -> Letters] : n \in 1..MaxWordLen}

Ord(c) == IF c = "a" THEN 1 ELSE 2

\* s.startswith(prefix)
StartsWith(s, prefix) ==
    /\ Len(prefix) <= Len(s)
    /\ \A k \in 1..Len(prefix) : s[k] = prefix[k]

\* s < t for str
RECURSIVE Less(_, _)
Less(s, t) ==
    IF s = <<>> THEN t # <<>>
    ELSE IF t = <<>> THEN FALSE
    ELSE IF Head(s) # Head(t) THEN Ord(Head(s)) < Ord(Head(t))
    ELSE Less(Tail(s), Tail(t))

\* The for loop that builds the hint from position i on.
RECURSIVE HintLoop(_, _, _, _)
HintLoop(guessed_word, word, i, hint) ==
    IF i > Len(guessed_word) THEN hint
    ELSE IF Len(word) < i THEN hint
    ELSE IF guessed_word[i] # word[i] THEN hint
    ELSE HintLoop(guessed_word, word, i + 1, Append(hint, guessed_word[i]))

HintAlwaysApplies(guessed_word, hint) == TRUE

\* The test that guards the update of the hint.
HintApplies(guessed_word, hint) == StartsWith(guessed_word, hint)

UpdateHint(guessed_word, word, hint) ==
    IF HintApplies(guessed_word, hint)
      THEN HintLoop(guessed_word, word, 1, <<>>)
      ELSE hint

Count(list, x) == Cardinality({k \in DOMAIN list : list[k] = x})

\* list.remove(x) for an x that is in the list: the first occurrence goes.
stop_wordsearch(list, x) ==
    LET k == CHOOSE i \in DOMAIN list :
                 list[i] = x /\ \A j \in 1..(i - 1) : list[j] # x
    IN  SubSeq(list, 1, k - 1) \o SubSeq(list, k + 1, Len(list))

FreeSession(i) ==
    /\ sessions[i].pc = "idle"
    /\ \A j \in 1..(i - 1) : sessions[j].pc # "idle"

Step(op, channel, outcome) ==
    [NoStep EXCEPT !.op = op, !.channel = channel, !.outcome = outcome]

\* The test of the while loop, for a coroutine that would wait for a guess.
LoopOrEnd(s, list) ==
    IF InList(list, s.channel) THEN [s EXCEPT !.pc = "guessing"] ELSE NoSession

WsInit ==
    /\ BindIdle /\ RegIdle /\ DispIdle /\ ManIdle /\ LamIdle /\ OwnIdle
    /\ wordsearch = <<>>
    /\ sessions = [i \in 1..MaxSessions |-> NoSession]
    /\ ws_last = NoStep

\* '!wordsearch': start_wordsearch without a word, up to its first await.
wordsearch_ ==
    \E i \in 1..MaxSessions, channel \in Channels :
        /\ FreeSession(i)
        /\ IF ~InList(wordsearch, channel)
             THEN /\ sessions' = [sessions EXCEPT ![i] =
                          [NoSession EXCEPT !.pc = "say_waiting", !.channel = channel]]
                  /\ ws_last' = Step("start", channel, "waiting")
             ELSE /\ sessions' = sessions
                  /\ ws_last' = Step("start", channel, "already active")
        /\ UNCHANGED <<wordsearch, ownvars>>
        /\ UNCHANGED <<bindvars, regvars, dispvars, manvars, lamvars>>

\* '!wordsearch auto': start_wordsearch with the word auto_word returned
\* (an empty word takes the path of wordsearch_).
wordsearch_auto ==
    \E i \in 1..MaxSessions, channel \in Channels, word \in Words :
        /\ FreeSession(i)
        /\ IF ~InList(wordsearch, channel)
             THEN /\ wordsearch' = Append(wordsearch, channel)
                  /\ sessions' = [sessions EXCEPT ![i] =
                          [NoSession EXCEPT !.pc = "say_set", !.channel = channel,
                                            !.word = word]]
                  /\ ws_last' = [Step("start", channel, "set") EXCEPT !.word = word]
             ELSE /\ wordsearch' = wordsearch
                  /\ sessions' = sessions
                  /\ ws_last' = Step("start", channel, "already active")
        /\ UNCHANGED ownvars
        /\ UNCHANGED <<bindvars, regvars, dispvars, manvars, lamvars>>

\* "Waiting for ... to choose a word!" is sent: the channel is registered
\* and the host is asked for a word.
RegisterChannel ==
    \E i \in 1..MaxSessions :
        /\ sessions[i].pc = "say_waiting"
        /\ wordsearch' = Append(wordsearch, sessions[i].channel)
        /\ sessions' = [sessions EXCEPT ![i].pc = "say_enter"]
        /\ UNCHANGED <<ws_last, ownvars>>
        /\ UNCHANGED <<bindvars, regvars, dispvars, manvars, lamvars>>

\* "Please enter a word!" is sent: the 30-second wait starts.
AwaitWord ==
    \E i \in 1..MaxSessions :
        /\ sessions[i].pc = "say_enter"
        /\ sessions' = [sessions EXCEPT ![i].pc = "entering"]
        /\ UNCHANGED <<wordsearch, ws_last, ownvars>>
        /\ UNCHANGED <<bindvars, regvars, dispvars, manvars, lamvars>>

\* A message of the host that valid_word rejects: the wait goes on.
InvalidWord ==
    \E i \in 1..MaxSessions :
        /\ sessions[i].pc = "entering"
        /\ sessions' = [sessions EXCEPT ![i].wrong = TRUE]
        /\ UNCHANGED <<wordsearch, ws_last, ownvars>>
        /\ UNCHANGED <<bindvars, regvars, dispvars, manvars, lamvars>>

\* The host enters a valid word.
WordEntered ==
    \E i \in 1..MaxSessions, word \in Words :
        /\ sessions[i].pc = "entering"
        /\ sessions' = [sessions EXCEPT ![i].pc = "say_set", ![i].word = word]
        /\ UNCHANGED <<wordsearch, ws_last, ownvars>>
        /\ UNCHANGED <<bindvars, regvars, dispvars, manvars, lamvars>>

\* The 30 seconds pass: reply is None.
WordTimeout ==
    \E i \in 1..MaxSessions :
        /\ sessions[i].pc = "entering"
        /\ IF InList(wordsearch, sessions[i].channel)
             THEN /\ wordsearch' = stop_wordsearch(wordsearch, sessions[i].channel)
                  /\ ws_last' = [Step("timeout", sessions[i].channel,
                                       "failed to enter a valid word.")
                                    EXCEPT !.wrong = sessions[i].wrong]
             ELSE /\ wordsearch' = wordsearch
                  /\ ws_last' = [Step("timeout", sessions[i].channel, "ValueError")
                                    EXCEPT !.wrong = sessions[i].wrong]
        /\ sessions' = [sessions EXCEPT ![i] = NoSession]
        /\ UNCHANGED ownvars
        /\ UNCHANGED <<bindvars, regvars, dispvars, manvars, lamvars>>

\* The replies that announce the word are sent: the while loop is entered.
Announced ==
    \E i \in 1..MaxSessions :
        /\ sessions[i].pc = "say_set"
        /\ sessions' = [sessions EXCEPT ![i] = LoopOrEnd(sessions[i], wordsearch)]
        /\ UNCHANGED <<wordsearch, ws_last, ownvars>>
        /\ UNCHANGED <<bindvars, regvars, dispvars, manvars, lamvars>>

\* A message that valid_guess accepts arrives in the channel.
Guess ==
    \E i \in 1..MaxSessions, guessed_word \in Words :
        LET s     == sessions[i]
            hint  == UpdateHint(guessed_word, s.word, s.hint)
            right == StartsWith(guessed_word, s.word)
            m     == IF right THEN "got it"
                     ELSE IF Less(s.word, guessed_word) THEN "after"
                     ELSE IF Less(guessed_word, s.word) THEN "before"
                     ELSE ""
            said  == [op |-> "guess", channel |-> s.channel, word |-> s.word,
                      guess |-> guessed_word, before |-> s.hint, hint |-> hint,
                      outcome |-> m, wrong |-> FALSE]
            next  == [s EXCEPT !.hint = hint, !.tries = s.tries + 1]
        IN  /\ s.pc = "guessing"
            /\ s.tries < MaxTries
            /\ IF right /\ ~InList(wordsearch, s.channel)
                 THEN /\ wordsearch' = wordsearch
                      /\ sessions' = [sessions EXCEPT ![i] = NoSession]
                      /\ ws_last' = [said EXCEPT !.outcome = "ValueError"]
                 ELSE /\ wordsearch' = IF right
                                         THEN stop_wordsearch(wordsearch, s.channel)
                                         ELSE wordsearch
                      /\ sessions' = [sessions EXCEPT ![i] = LoopOrEnd(next, wordsearch')]
                      /\ ws_last' = said
            /\ UNCHANGED ownvars
            /\ UNCHANGED <<bindvars, regvars, dispvars, manvars, lamvars>>

\* 30 minutes pass without a guess.
GuessTimeout ==
    \E i \in 1..MaxSessions :
        /\ sessions[i].pc = "guessing"
        /\ IF InList(wordsearch, sessions[i].channel)
             THEN /\ wordsearch' = stop_wordsearch(wordsearch, sessions[i].channel)
                  /\ ws_last' = Step("expire", sessions[i].channel, "cancelled")
             ELSE /\ wordsearch' = wordsearch
                  /\ ws_last' = Step("expire", sessions[i].channel, "ValueError")
        /\ sessions' = [sessions EXCEPT ![i] = NoSession]
        /\ UNCHANGED ownvars
        /\ UNCHANGED <<bindvars, regvars, dispvars, manvars, lamvars>>

WsNext ==
    \/ wordsearch_ \/ wordsearch_auto \/ RegisterChannel \/ AwaitWord \/ InvalidWord
    \/ WordEntered \/ WordTimeout \/ Announced \/ Guess \/ GuessTimeout

SpecWordsearch == WsInit /\ [][WsNext]_vars

\* Sessions that '!wordsearch auto' starts.
HintNext == wordsearch_auto \/ Announced \/ Guess \/ GuessTimeout

SpecHint == WsInit /\ [][HintNext]_vars

-----------------------------------------------------------------------------
(* Claims about the binder *)

\* the declared parameters after client and message, and the argument tokens
ArgSig == SubSeq(signature, 3, Len(signature))
NumArgTokens == Len(CmdArgs) - 1
ArgToken(i) == CmdArgs[i + 1]

\* parse_annotation yields a value for the i-th parameter on the i-th token
Yields(i) ==
    ParseAnnotation(ArgSig[i], ArgToken(i), i + start_index, content).t = "val"

\* exactly N positional parameters, none with a default, none variadic
AllRequiredPositional ==
    \A i \in 1..Len(ArgSig) : ArgSig[i].kind = "POS" /\ ~ArgSig[i].hasDefault

\* C1 as stated: with exactly N required positional parameters, binding is
\* complete if and only if exactly N argument tokens follow the command name
\* and each parameter's annotation yields a value for its token.
C1_ExactlyNTokens ==
    (bphase = "bound" /\ AllRequiredPositional) =>
        (result.complete <=>
            (/\ NumArgTokens = Len(ArgSig)
             /\ \A i \in 1..Len(ArgSig) : Yields(i)))

\* C1 as the code has it: with exactly N required positional parameters,
\* binding is complete if and only if at least N argument tokens follow the
\* command name and each parameter's annotation yields a value for its token;
\* the tokens after the N-th are ignored.
C1_AtLeastNTokens ==
    (bphase = "bound" /\ AllRequiredPositional) =>
        (result.complete <=>
            (/\ NumArgTokens >= Len(ArgSig)
             /\ \A i \in 1..Len(ArgSig) : Yields(i)))

\* two required positional parameters bound from a message that carries a
\* third token
C1_Witness ==
    /\ bphase = "bound"
    /\ AllRequiredPositional
    /\ Len(ArgSig) = 2
    /\ NumArgTokens = 3
    /\ result.complete
    /\ Len(result.args) = 2

\* a *args parameter, and every other parameter has a default
VariadicNothingRequired ==
    /\ \E i \in 1..Len(ArgSig) : ArgSig[i].kind = "VAR"
    /\ \A i \in 1..Len(ArgSig) : ArgSig[i].kind # "VAR" => ArgSig[i].hasDefault

\* C2: a handler with a *args parameter and no other required parameter is
\* bound completely whatever the number of argument tokens, zero included.
C2_VariadicAlwaysComplete ==
    (bphase = "bound" /\ VariadicNothingRequired /\ ~result.raised) => result.complete

\* the place of the *args parameter among the argument parameters, 0 if none
VarPlace ==
    IF \E i \in 1..Len(ArgSig) : ArgSig[i].kind = "VAR"
    THEN CHOOSE i \in 1..Len(ArgSig) : ArgSig[i].kind = "VAR"
    ELSE 0

\* the values bound to *args: what follows the positional values in args
VarCaptured == SubSeq(result.args, VarPlace, Len(result.args))

\* C3: *args is bound to all tokens from its cursor to the end of the token
\* list except the trailing tokens reserved for the keyword-only parameters
\* that follow it; with no keyword-only parameter it receives every remaining
\* token. (Stated for str.lower annotations, which yield a value for every
\* token, so that no token is dropped and no parameter stops the binding.)
C3_VariadicTakesRest ==
    (/\ bphase = "bound"
     /\ VarPlace # 0
     /\ \A i \in 1..VarPlace : ArgSig[i].anno = "lower"
     /\ ~result.raised
     /\ NumArgTokens >= VarPlace)
    => VarCaptured =
         LowerAll(SubSeq(CmdArgs, VarPlace + 1,
                         Len(CmdArgs) - NumKwargs(signature)))

\* What the annotation of log entry e did with its token, before the
\* try/except of parse_annotation: "val", "exc" (an exception other than
\* TypeError) or "typeerr".
RawOutcome(e) ==
    IF e.out = "absent" \/ signature[e.k].anno \in ContentAnnos THEN "val"
    ELSE CallAnnotation(signature[e.k].anno, CmdArgs[e.index]).t

\* the log entries of the parameters whose annotation is a coercion function
\* that raised, for the token it was given, an exception of one of the kinds
CoercionFailures(kinds) ==
    {n \in 1..Len(result.log) :
        /\ signature[result.log[n].k].anno \in CoercionAnnos
        /\ RawOutcome(result.log[n]) \in kinds}

\* the default was bound for the parameter of log entry e
DefaultBound(e) ==
    IF signature[e.k].kind = "KW"
    THEN e.k \in DOMAIN result.kwargs /\ result.kwargs[e.k] = DefaultVal
    ELSE Len(result.args) >= e.k - 2 /\ result.args[e.k - 2] = DefaultVal

TreatedAsNoValue(e) ==
    IF signature[e.k].hasDefault THEN DefaultBound(e) ELSE ~result.complete

AllCoercions == \A i \in 1..Len(ArgSig) : ArgSig[i].anno \in CoercionAnnos

\* C10 as stated: whatever exception a coercion function raises for a token,
\* TypeError included, is treated as "no value" (the default is bound if there
\* is one, otherwise binding is incomplete) and never leaves the binder.
C10_EveryExceptionIsNoValue ==
    (bphase = "bound" /\ AllCoercions) =>
        /\ ~result.raised
        /\ \A n \in CoercionFailures({"exc", "typeerr"}) :
              TreatedAsNoValue(result.log[n])

\* C10 as the code has it: an exception other than TypeError that the coercion
\* function of a non-variadic parameter raises for its token is treated as "no
\* value" (the default is bound if there is one, otherwise binding is
\* incomplete) and does not leave the binder; a TypeError does leave the
\* binder, as a TypeError, and the binder returns nothing.
C10_TypeErrorPropagates ==
    bphase = "bound" =>
        /\ \A n \in CoercionFailures({"exc"}) :
              /\ ~signature[result.log[n].k].hasDefault
                    => ~result.raised /\ ~result.complete
              /\ (signature[result.log[n].k].hasDefault /\ ~result.raised)
                    => DefaultBound(result.log[n])
        /\ (CoercionFailures({"typeerr"}) # {}) => result.raised /\ ~result.complete
        /\ result.raised =>
              /\ result.log # <<>>
              /\ RawOutcome(result.log[Len(result.log)]) = "typeerr"

\* int given a token that is no number, with and without a default, and abs
\* given a token
C10_Witness ==
    /\ bphase = "bound"
    /\ Len(ArgSig) = 3
    /\ ArgSig[1].anno = "int" /\ ArgSig[1].hasDefault
    /\ ArgSig[2].anno = "int" /\ ~ArgSig[2].hasDefault
    /\ ~result.raised /\ ~result.complete
    /\ Cardinality(CoercionFailures({"exc"})) = 2

C10_WitnessRaised ==
    /\ bphase = "bound"
    /\ CoercionFailures({"typeerr"}) # {}
    /\ result.raised

\* the log entries of the parameters declared without annotation that were
\* given a token
Unannotated ==
    {n \in 1..Len(result.log) :
        /\ signature[result.log[n].k].anno = "empty"
        /\ result.log[n].out # "absent"}

\* C11: a parameter declared without any annotation is bound to the raw token
\* string unchanged.
C11_UnannotatedBindsRawToken ==
    bphase = "bound" =>
        \A n \in Unannotated :
            /\ ~result.raised
            /\ Len(result.args) >= result.log[n].k - 2
            /\ result.args[result.log[n].k - 2] = CmdArgs[result.log[n].index]

\* the log entries of the non-variadic parameters with a default that had no
\* token left or whose annotation yielded no value
Defaulted ==
    {n \in 1..Len(result.log) :
        /\ signature[result.log[n].k].hasDefault
        /\ result.log[n].out \in {"absent", "none"}}

\* the parameter at place k of the signature was bound from its token
BoundFromToken(k) ==
    \E n \in 1..Len(result.log) : result.log[n].k = k /\ result.log[n].out = "val"

\* C12: a non-variadic parameter that declares a default never makes binding
\* incomplete: when no token is left for it or its annotation yields no
\* value, the default is bound, positionally or by keyword, and binding goes
\* on, so that a binding that returns incomplete has a parameter without
\* default that was not bound from a token.
C12_DefaultNeverIncomplete ==
    (bphase = "bound" /\ ~result.raised) =>
        /\ \A n \in Defaulted : DefaultBound(result.log[n])
        /\ ~result.complete =>
              \E k \in 3..Len(signature) :
                  ~signature[k].hasDefault /\ ~BoundFromToken(k)

\* a parameter bound from its token, then int with a default given a token
\* that is no number, then a keyword-only parameter with a default and no
\* token
C12_Witness ==
    /\ bphase = "bound"
    /\ Len(ArgSig) = 3
    /\ ArgSig[1].kind = "POS" /\ ~ArgSig[1].hasDefault
    /\ ArgSig[2].kind = "POS" /\ ArgSig[2].anno = "int" /\ ArgSig[2].hasDefault
    /\ ArgSig[3].kind = "KW" /\ ArgSig[3].hasDefault
    /\ CmdArgs = <<"!cmd", "7", "Math">>
    /\ result.complete
    /\ Cardinality(Defaulted) = 2
    /\ result.args[2] = DefaultVal
    /\ result.kwargs[5] = DefaultVal

\* the returned args and kwargs hold a value for the parameter at place k
Supplied(k) ==
    IF signature[k].kind = "KW" THEN k \in DOMAIN result.kwargs
    ELSE Len(result.args) >= k - 2

\* C23: whenever the binder reports complete, args and kwargs supply a value
\* for every declared parameter after client and message that is not *args
\* and has no default, required keyword-only parameters included.
\* Violated: a required keyword-only parameter behind a *args that captured
\* nothing is counted as given.
C23_CompleteSuppliesRequired ==
    (bphase = "bound" /\ ~result.raised /\ result.complete) =>
        \A k \in 3..Len(signature) :
            (signature[k].kind # "VAR" /\ ~signature[k].hasDefault) => Supplied(k)

-----------------------------------------------------------------------------
(* Claims about registration and the sub-command walk *)

\* no two commands of one list share a name
DistinctNames(cmds) ==
    \A i, j \in 1..Len(cmds) : cmds[i].name = cmds[j].name => i = j

\* C4: after any sequence of registrations in one plugin no two siblings share
\* a name, at the top level and under every parent command, because the second
\* registration of a name under one parent fails and leaves the first intact.
C4_NoSiblingsShareName ==
    /\ DistinctNames(commands)
    /\ \A path \in Paths(commands) : DistinctNames(CommandAt(commands, path).sub_commands)

\* the longest chain of names at the start of rest, each a child of the
\* command before it
RECURSIVE LeadingChain(_, _, _)
LeadingChain(command, rest, k) ==
    IF rest # <<>> /\ \E i \in 1..Len(command.sub_commands) :
                          command.sub_commands[i].name = rest[1]
    THEN LeadingChain(command.sub_commands[FirstIndex(command.sub_commands, rest[1])],
                      Tail(rest), k + 1)
    ELSE [command |-> command, k |-> k]

\* C5: when the tokens after the command name begin with a chain of k >= 1
\* names, each a registered child of the command before it and the next token
\* (if any) not a child of the last, the walk resolves to the last command of
\* the chain and binding starts at the token after the chain.
C5_ChainResolves ==
    walk # NoWalk =>
        LET chain == LeadingChain(GetCommand(commands, walk.top), Tail(walk.tokens), 0)
        IN  chain.k >= 1 =>
                /\ walk.function = chain.command.function
                /\ walk.start_index = chain.k
                /\ walk.cmd_args = SubSeq(walk.tokens, chain.k + 1, Len(walk.tokens))

\* the argument tokens the binder reads: it skips the first element of the
\* list get_sub_command returns
BinderTokens == Tail(walk.cmd_args)

\* C24: the walk consumes only leading tokens: the tokens taken as
\* sub-command names are the first ones after the command name, without a
\* gap, and the argument tokens handed to the binder are exactly the tokens
\* behind the last consumed one, in their order.
\* Violated: the loop goes over every token and takes a sub-command name
\* wherever it stands, while the returned list is cut by the number of names.
C24_WalkConsumesLeadingOnly ==
    walk # NoWalk =>
        /\ \A n \in 1..Len(walk.matched) : walk.matched[n] = n + 1
        /\ BinderTokens =
              SubSeq(walk.tokens, Len(walk.matched) + 2, Len(walk.tokens))

-----------------------------------------------------------------------------
(* Claims about dispatch *)

Dispatched == msg.author # "bot" /\ msg.tokens # <<>>

BindEntries == {bindlog[i] : i \in 1..Len(bindlog)}
Tasks == {scheduled[i] : i \in 1..Len(scheduled)}
Replies == {sent[i] : i \in 1..Len(sent)}

\* the content-capturing argument parameters that were bound: the handlers
\* of the repository declare positional parameters only, so the p-th
\* argument parameter is bound to args[p]
ContentPlaces(e) ==
    {p \in 1..Len(e.params) : e.params[p].anno \in ContentAnnos /\ p <= Len(e.args)}

\* the tail of the message that begins at the token at place j (1-based)
TailFrom(j) == Join(SubSeq(msg.tokens, j, Len(msg.tokens)))

ContentValue(anno, j) ==
    CASE anno = "Code" -> FormattedCode(TailFrom(j))
      [] anno = "LowerContent" -> Lower(TailFrom(j))
      [] OTHER -> TailFrom(j)

\* the tokens after the command name that the walk did not take, as places
LeftPlaces(e) == {j \in 2..Len(msg.tokens) : \A n \in 1..Len(e.matched) : e.matched[n] # j}

\* the place of the p-th argument token, counted among the tokens the walk left
ArgPlaceAmongLeft(e, p) ==
    IF Cardinality(LeftPlaces(e)) < p THEN 0
    ELSE CHOOSE j \in LeftPlaces(e) : Cardinality({i \in LeftPlaces(e) : i <= j}) = p

\* the place of the p-th argument token, counted from the last token the walk took
ArgPlaceAfterLast(e, p) ==
    (IF e.matched = <<>> THEN 1 ELSE e.matched[Len(e.matched)]) + p

\* C6: a content-capturing parameter that is the p-th argument parameter is
\* bound to the tail of the message that begins at the p-th argument token,
\* whether the argument tokens are counted as the tokens the walk left or as
\* the tokens after the last one it took.
C6_ContentTailAtOwnToken ==
    \A e \in BindEntries : \A p \in ContentPlaces(e) :
        \/ e.args[p] = ContentValue(e.params[p].anno, ArgPlaceAmongLeft(e, p))
        \/ e.args[p] = ContentValue(e.params[p].anno, ArgPlaceAfterLast(e, p))

\* C7: when binding for a matched command is incomplete, that command's
\* handler is never scheduled for the message.
C7_IncompleteNeverScheduled ==
    \A e \in BindEntries :
        ~e.complete =>
            ~\E t \in Tasks : t.kind = "command" /\ t.plugin = e.plugin

\* a message whose binding was incomplete, answered with the command's error
\* text, the loop over the plugins then run to its end
C7_Witness ==
    /\ pc = "done"
    /\ \E e \in BindEntries : ~e.complete /\ ~e.raised /\ e.function = "load"
    /\ \E r \in Replies : r.text = LoadError
    /\ \E t \in Tasks : t.kind = "hook"

\* C8: every incomplete binding of a matched command results in a message to
\* the channel, the command's error text when it declares one and the usage
\* of the command otherwise, whatever plugins are loaded.
C8_IncompleteAlwaysAnswered ==
    pc \in {"done", "raised"} =>
        \A e \in BindEntries :
            (~e.complete /\ ~e.raised) =>
                \E r \in Replies :
                    /\ r.plugin = e.plugin
                    /\ e.error # "" => r.text = e.error

HookCount(pl) ==
    Cardinality({i \in 1..Len(scheduled) :
                    scheduled[i].kind = "hook" /\ scheduled[i].plugin = pl})

\* C9: for every dispatched message, once on_message has ended, the
\* on_message hook of every loaded plugin that has one was scheduled exactly
\* once, whether or not a command matched or bound.
C9_EveryHookScheduledOnce ==
    (pc \in {"done", "raised"} /\ Dispatched) =>
        \A i \in 1..Len(plugins) :
            "on_message" \in ModuleAttrs(plugins[i]) => HookCount(plugins[i]) = 1

C25_NoChangeWhileSuspended ==
    [][pc = "reply" => plugins' = plugins]_vars

-----------------------------------------------------------------------------
(* Claims about loading, reloading and unloading plugins *)

\* the command tree a plugin has when its module was executed to its end
CompleteCommands(name) == RegisterAll(<<>>, UnitDecls(name))

\* C13: load_plugin never raises to its caller; when the unit of the plugin
\* is missing or malformed it returns False and the loaded plugins are the
\* same as before the call.
\* Violated: a unit with a syntax error, or one whose top-level code raises,
\* makes import_module raise something that is no ImportError.
C13_LoadNeverRaises ==
    last_op.op = "load_plugin"
        => /\ last_op.outcome # "raised"
           /\ units[last_op.name] # "ok" /\ ~mods[last_op.name].imported
                 => last_op.outcome = "False" /\ ~IsLoaded(entries, last_op.name)

\* C17: whenever the dispatcher can observe the registry, every loaded
\* plugin has a complete set of commands, never an empty or partly
\* registered one, whether a reload succeeded or raised.
\* Violated: a reload whose module raises leaves the plugin loaded without
\* __commands or with the commands registered before the error.
C17_LoadedPluginsAreComplete ==
    \A n \in Live(entries) : mods[n].has /\ mods[n].cmds = CompleteCommands(n)

VisitOrder(e) == Compact(e)

Without(names, name) == SelectSeq(names, LAMBDA n : n # name)

C26_ManagementStaysDispatchable ==
    /\ IsLoaded(entries, "builtin")
    /\ mods["builtin"].has
    /\ GetCommand(mods["builtin"].cmds, "plugin") # NoCommand

-----------------------------------------------------------------------------
(* Claims about saving *)

\* C14: save_plugins calls the save hook of every loaded plugin that has
\* one; when a hook raises, the failure is logged and the hooks of the
\* remaining plugins are still called.
\* Violated: a TypeError of a hook is dropped without a log entry, and the
\* loop ends early when the dict changed while a hook was suspended.
C14_EveryHookCalledFailuresLogged ==
    last_op.op \in {"save_plugins", "reload_all"}
        => /\ \A n \in last_op.live_end : HasSave(n) => n \in last_op.saved
           /\ \A n \in last_op.saved :
                  hooks[n] \in {"exc", "typeerr"} => n \in last_op.logged

\* C15: every plugin with a save hook that the reload command reloads had
\* its save hook called by that command before reload_plugin replaced it.
\* Violated: the reload of every plugin reloads the keys the dict has after
\* save_plugins, which may have passed over a plugin.
C15_SavedBeforeReloaded ==
    \A k \in 1..Len(last_op.reloads) :
        HasSave(last_op.reloads[k].name) => last_op.reloads[k].saved

\* C16: the autosave task is never inside the save of a plugin while a
\* reload command is inside its save of the same plugin.
\* Violated: nothing keeps the two coroutines apart.
C16_AutosaveNeverOverlapsReload ==
    ~(/\ auto.pc = "saving"
      /\ \E i \in 1..MaxTasks :
            /\ coros[i].pc = "saving"
            /\ coros[i].kind \in {"reload", "reloadall"}
            /\ coros[i].hook = auto.hook)

-----------------------------------------------------------------------------
(* Claims about unload_plugin *)

\* C19: unload_plugin with a name that is not loaded raises nothing and
\* leaves the loaded plugins and the commands of every plugin as they were.
C19_UnloadAbsentChangesNothing ==
    [][(last_op'.op = "unload_plugin" /\ ~IsLoaded(entries, last_op'.name))
          => /\ last_op'.outcome # "raised"
             /\ entries' = entries
             /\ mods' = mods]_vars

C19_Witness ==
    /\ last_op.op = "unload_plugin"
    /\ last_op.outcome = "absent"
    /\ last_op.name = "p"
    /\ IsLoaded(entries, "q")

-----------------------------------------------------------------------------
(* Claims about the lambda commands *)

\* C28: after "lambda disable" has run for an existing, enabled trigger, a
\* message whose first token is that trigger does not execute its script
\* until "lambda enable" is run for it.
\* Violated: disable appends to the blacklist only when the trigger is
\* already in it, so an enabled trigger stays enabled.
C28_DisabledTriggerDoesNotRun ==
    (lam_last.op = "message" /\ lam_last.outcome = "executed")
        => lam_last.trigger \notin asked

-----------------------------------------------------------------------------
(* Claims about setowner *)

\* C27: once an owner is stored, no setowner invocation changes it, also
\* not one that passed the "owner already set" test before the owner was
\* stored and was waiting for its code.
\* Violated: the coroutine does not test owner_cfg.data again after the wait.
C27_StoredOwnerNeverChanges ==
    [][owner # "" => owner' = owner]_vars

\* C22: a timed wait that ends by expiry of its timeout ends with an outcome
\* that differs from the outcome of a wait in which wrong input was given.
\* Violated: wrong input is dropped by the filter of wait_for_message, so a
\* wait with wrong input also ends by expiry, with the same reply.
C22_TimeoutDistinctFromWrongInput ==
    \A x \in ends, y \in ends :
        (x.cmd = y.cmd /\ x.by = "timeout" /\ ~x.wrong /\ y.wrong)
            => x.outcome # y.outcome

-----------------------------------------------------------------------------
(* Claims about wordsearch *)

\* C29: a channel id occurs at most once in the list of active wordsearches
\* and a channel never has two start_wordsearch coroutines, also when two
\* starts interleave at the await between the test and the registration.
\* Violated: the second start passes the test while the first one is still
\* sending "Waiting for ...", and both append the channel.
C29_OneSessionPerChannel ==
    \A c \in Channels :
        /\ Count(wordsearch, c) <= 1
        /\ Cardinality({i \in 1..MaxSessions :
                            sessions[i].pc # "idle" /\ sessions[i].channel = c}) <= 1

\* C30: after every guess the hint is a prefix of the word and is at least
\* as long as it was before the guess.
C30_HintIsGrowingPrefix ==
    ws_last.op = "guess" =>
        /\ StartsWith(ws_last.word, ws_last.hint)
        /\ Len(ws_last.hint) >= Len(ws_last.before)

C30_Witness ==
    /\ ws_last.op = "guess"
    /\ ws_last.before # <<>>
    /\ ~StartsWith(ws_last.guess, ws_last.before)
    /\ ws_last.hint = ws_last.before

====
